---- MODULE Spec2Model ----
(***************************************************************************)
(* Domain checker API (src/server.js, src/unnamed/part_000).               *)
(*                                                                         *)
(* src/server.js holds two server variants one after the other:            *)
(*   lines   1-181  RDAP first, Namecheap as fallback; /check-batch fans   *)
(*                  checkDomain out over the domains with Promise.all      *)
(*   lines 182-709  Name.com; every upstream call passes enforceRateLimit, *)
(*                  /check-batch issues one batch call                     *)
(* src/unnamed/part_000 is a third server, a proxy of the Porkbun API.     *)
(*                                                                         *)
(* A domain is the sequence of its labels, <<"google", "com">> for         *)
(* google.com, so that domain.split('.').pop() is its last element.        *)
(* A message is the sequence of its words, so that String.includes is a    *)
(* search for a run of words and stays case sensitive.                     *)
(***************************************************************************)
EXTENDS Integers, Sequences, FiniteSets, TLC

\* ------------------------------------------------------------------ bounds

\* longest list of domains a request carries, the oversized list aside
MaxBatch == 2

\* requests the Name.com server handles in one run
MaxCalls == 4

\* the clock stops at MaxTime, unless a timer is still pending
MaxTime == 4

\* limits.perSecond and limits.perHour of rateLimiter (20 and 3000 in the
\* source) and the lengths of its two windows (1000 ms and 3600000 ms in the
\* source), brought down to sizes a run can exhaust
perSecond == 2
perHour == 3
SecondMs == 2
HourMs == 4

\* ------------------------------------------------- RDAP / Namecheap variant

VARIABLES
  namecheapConfigured, \* process.env.NAMECHEAP_API_USER and _API_KEY are both set
  fanPc,               \* the /check-batch handler: "idle", "running", "responded"
  fanBody,             \* req.body.domains of the request being handled
  fanTasks,            \* one checkDomain call per domain, in input order
  fanOrder,            \* the task indices in the order in which they resolved
  fanResponse          \* what the handler sent: status and JSON body

fanVars == <<namecheapConfigured, fanPc, fanBody, fanTasks, fanOrder, fanResponse>>

\* ----------------------------------------------------------- Name.com variant

VARIABLES
  now,          \* Date.now()
  rateLimiter,  \* the rateLimiter object
  calls,        \* the requests: where each stands, its input, its timer
  sent,         \* the answer the latest step sent, if it sent one
  admitted      \* the enforceRateLimit calls that returned, per live window

ncVars == <<now, rateLimiter, calls, sent, admitted>>

\* ------------------------------------------------------------- Porkbun proxy

VARIABLES
  porkbunConfigured, \* PORKBUN_API_KEY and PORKBUN_SECRET_KEY are both set
  porkbunPc,         \* the /check handler: "idle", "upstream", "responded"
  porkbunDomain,     \* req.query.domain of the request being handled
  porkbunReply,      \* what axios.post settled with for that request
  porkbunResponse    \* what the handler sent: status and JSON body

pbVars == <<porkbunConfigured, porkbunPc, porkbunDomain, porkbunReply, porkbunResponse>>

vars == <<fanVars, ncVars, pbVars>>

\* the limit of both /check-batch handlers
MAX_DOMAINS == 100

\* the keys of the RDAP_SERVERS table
RDAP_SERVERS == {"com", "net", "co", "org", "io", "ai"}

\* keys every object literal inherits from Object.prototype
ObjectPrototypeKeys == {"constructor", "toString", "valueOf", "hasOwnProperty", "__proto__"}

\* RDAP_SERVERS[tld]: the URL of the server for a key of the table, the
\* inherited function or object for a key of Object.prototype, undefined for
\* any other suffix
RdapLookup(tld) ==
  IF tld \in RDAP_SERVERS THEN "url"
  ELSE IF tld \in ObjectPrototypeKeys THEN "inherited"
  ELSE "undefined"

Domains == {<<"free-xyz123", "test">>, <<"google", "com">>, <<"shop", "constructor">>}

RECURSIVE SeqsUpTo(_, _)
SeqsUpTo(S, n) ==
  IF n = 0 THEN {<<>>}
  ELSE LET shorter == SeqsUpTo(S, n - 1)
       IN  shorter \cup {Append(s, x) : s \in {t \in shorter : Len(t) = n - 1}, x \in S}

\* a list one longer than the limit
Oversized == [i \in 1..(MAX_DOMAINS + 1) |-> <<"google", "com">>]

\* req.body.domains: a list, or something that is no list (undefined, a string)
Bodies ==
  {[isArray |-> TRUE, items |-> s] : s \in SeqsUpTo(Domains, MaxBatch) \cup {Oversized}}
    \cup {[isArray |-> FALSE, items |-> <<>>]}

\* what an upstream server may answer to one HTTP request
HttpReply(status, data) == [kind |-> "http", status |-> status, data |-> data]
Timeout == [kind |-> "timeout", status |-> 0, data |-> <<>>]

\* no reply: the adapter threw before it called axios
NoReply == [kind |-> "none", status |-> 0, data |-> <<>>]

\* axios called with a text that is no URL: it rejects without a request
\* (new URL throws), or resolves the text against localhost and sends the
\* request there, where the connection fails, depending on the axios release
InvalidUrl == [kind |-> "invalidUrl", status |-> 0, data |-> <<>>]
ConnectionRefused == [kind |-> "network", status |-> 0, data |-> <<>>]

\* axios settles a reply: the promise resolves when a response arrived and
\* validateStatus accepts its status (given as the set of the statuses it
\* accepts), and rejects otherwise
AxiosResolves(reply, validateStatus) ==
  reply.kind = "http" /\ reply.status \in validateStatus

\* the outcome of an async call: a returned value or a thrown error
Return(v) == [threw |-> FALSE, value |-> v]
Throw(e)  == [threw |-> TRUE, value |-> e]

\* the error axios rejects with: error.response is set when a response arrived
AxiosError(reply) ==
  [code |-> CASE reply.kind = "timeout" -> "ECONNABORTED"
             [] reply.kind = "invalidUrl" -> "ERR_INVALID_URL"
             [] reply.kind = "network" -> "ECONNREFUSED"
             [] OTHER -> "ERR_BAD_RESPONSE",
   hasResponse |-> reply.kind = "http",
   status |-> reply.status]

Tld(domain) == domain[Len(domain)]

\* checkViaRDAP, if (!baseUrl): every value but undefined passes
HasRdapServer(domain) == RdapLookup(Tld(domain)) # "undefined"

RdapValidateStatus == {200, 404}

RdapReplies == {HttpReply(200, <<>>), HttpReply(404, <<>>), HttpReply(500, <<>>), Timeout}

\* what axios.get of checkViaRDAP may settle with: a reply of the server, or
\* the failure of a request whose URL was built from an inherited property
RdapRepliesFor(domain) ==
  IF RdapLookup(Tld(domain)) = "url" THEN RdapReplies ELSE {InvalidUrl, ConnectionRefused}

\* checkViaRDAP from the reply of axios.get on
CheckViaRDAP(domain, reply) ==
  IF AxiosResolves(reply, RdapValidateStatus)
  THEN Return([domain |-> domain, available |-> FALSE, method |-> "RDAP", speed |-> "fast"])
  ELSE IF AxiosError(reply).hasResponse /\ AxiosError(reply).status = 404
       THEN Return([domain |-> domain, available |-> TRUE, method |-> "RDAP", speed |-> "fast"])
       ELSE Throw(AxiosError(reply))

DefaultValidateStatus == 200..299

\* bodies of the Namecheap XML reply, as the words the code looks for
NamecheapReplies ==
  {HttpReply(200, <<"Available=\"true\"">>),
   HttpReply(200, <<"Available=\"false\"">>),
   HttpReply(200, <<"Status=\"ERROR\"">>),
   HttpReply(500, <<>>),
   Timeout}

\* String.prototype.includes on the words of a text
Includes(text, word) == \E i \in 1..Len(text) : text[i] = word

\* checkViaNamecheap from the reply of axios.get on
CheckViaNamecheap(domain, reply) ==
  IF AxiosResolves(reply, DefaultValidateStatus)
  THEN Return([domain |-> domain,
               available |-> Includes(reply.data, "Available=\"true\""),
               method |-> "Namecheap",
               speed |-> "medium"])
  ELSE Throw(AxiosError(reply))

\* the result checkDomain synthesizes when both adapters failed
ErrorResult(domain) ==
  [domain |-> domain, available |-> FALSE, method |-> "error",
   error |-> <<"Unable", "to", "check", "availability">>]

\* ---- checkDomain: one resolution, RDAP first and Namecheap as the fallback

\* an adapter attempt of a resolution: which adapter, whether it returned
\* (ok) or threw, and the upstream reply it got (NoReply when it threw before
\* any request)
Attempt(adapter, ok, reply) == [adapter |-> adapter, ok |-> ok, reply |-> reply]

\* a checkDomain call: where it stands ("rdap" and "namecheap" while that
\* request is in flight, "done" when it returned, "rejected" if it threw), its
\* adapter attempts so far, and the result it returned (a list of none or one)
Task(pc, log, result) == [pc |-> pc, log |-> log, result |-> result]

\* the catch block of checkDomain: checkViaNamecheap throws at once without
\* credentials, and issues its request otherwise
FallbackToNamecheap(log, domain) ==
  IF namecheapConfigured
  THEN Task("namecheap", log, <<>>)
  ELSE Task("done", Append(log, Attempt("namecheap", FALSE, NoReply)), <<ErrorResult(domain)>>)

\* checkDomain up to its first upstream request: checkViaRDAP throws at once
\* for a suffix without a server
StartCheckDomain(domain) ==
  IF HasRdapServer(domain)
  THEN Task("rdap", <<>>, <<>>)
  ELSE FallbackToNamecheap(<<Attempt("rdap", FALSE, NoReply)>>, domain)

\* AfterRdap with a second RDAP attempt after the first one failed
AfterRdapRetries(task, domain, reply) ==
  LET out == CheckViaRDAP(domain, reply)
  IN  IF out.threw
      THEN IF task.log = <<>>
           THEN Task("rdap", Append(task.log, Attempt("rdap", FALSE, reply)), <<>>)
           ELSE FallbackToNamecheap(Append(task.log, Attempt("rdap", FALSE, reply)), domain)
      ELSE Task("done", Append(task.log, Attempt("rdap", TRUE, reply)), <<out.value>>)

\* checkDomain from the RDAP reply on
AfterRdap(task, domain, reply) ==
  LET out == CheckViaRDAP(domain, reply)
  IN  IF out.threw
      THEN FallbackToNamecheap(Append(task.log, Attempt("rdap", FALSE, reply)), domain)
      ELSE Task("done", Append(task.log, Attempt("rdap", TRUE, reply)), <<out.value>>)

\* AfterNamecheap with the fallback's result lost: the error result is
\* returned whatever checkViaNamecheap did
AfterNamecheapLosesResult(task, domain, reply) ==
  LET out == CheckViaNamecheap(domain, reply)
  IN  Task("done", Append(task.log, Attempt("namecheap", ~out.threw, reply)),
           <<ErrorResult(domain)>>)

\* AfterNamecheap without the inner catch: the fallback's error is thrown on
AfterNamecheapRethrows(task, domain, reply) ==
  LET out == CheckViaNamecheap(domain, reply)
  IN  IF out.threw
      THEN Task("rejected", Append(task.log, Attempt("namecheap", FALSE, reply)), <<>>)
      ELSE Task("done", Append(task.log, Attempt("namecheap", TRUE, reply)), <<out.value>>)

\* checkDomain from the Namecheap reply on
AfterNamecheap(task, domain, reply) ==
  LET out == CheckViaNamecheap(domain, reply)
  IN  IF out.threw
      THEN Task("done", Append(task.log, Attempt("namecheap", FALSE, reply)),
                <<ErrorResult(domain)>>)
      ELSE Task("done", Append(task.log, Attempt("namecheap", TRUE, reply)), <<out.value>>)

\* ---- POST /check-batch, fan-out over checkDomain

Response(status, body) == [status |-> status, body |-> body]

NoResponse == Response(0, [error |-> <<>>])

AllDone(tasks) == \A i \in 1..Len(tasks) : tasks[i].pc = "done"

AnyRejected(tasks) == \E i \in 1..Len(tasks) : tasks[i].pc = "rejected"

\* Promise.all with the values in the order in which the promises resolved
PromiseAllByCompletion(tasks, order) == [k \in 1..Len(order) |-> tasks[order[k]].result[1]]

\* Promise.all: the values of the promises, each at the index of its promise
PromiseAll(tasks, order) == [i \in 1..Len(tasks) |-> tasks[i].result[1]]

\* the report the handler sends once Promise.all resolved
BatchReport(results) ==
  Response(200, [success |-> TRUE,
                 results |-> results,
                 totalChecked |-> Len(results),
                 available |-> Cardinality({i \in 1..Len(results) : results[i].available})])

\* FanSettle with the report sent as soon as one resolution has ended
FanSettleOnFirst(tasks, order) ==
  IF AnyRejected(tasks)
  THEN /\ fanPc' = "responded"
       /\ fanResponse' = Response(500, [error |-> <<"Batch", "check", "failed">>])
  ELSE IF order # <<>> \/ AllDone(tasks)
  THEN /\ fanPc' = "responded"
       /\ fanResponse' = BatchReport(PromiseAllByCompletion(tasks, order))
  ELSE /\ fanPc' = "running"
       /\ fanResponse' = NoResponse

\* the handler from a resolution on: Promise.all rejects with the first
\* rejection (the catch block answers 500) and resolves with the last result
\* (the report is sent)
FanSettle(tasks, order) ==
  IF AnyRejected(tasks)
  THEN /\ fanPc' = "responded"
       /\ fanResponse' = Response(500, [error |-> <<"Batch", "check", "failed">>])
  ELSE IF AllDone(tasks)
  THEN /\ fanPc' = "responded"
       /\ fanResponse' = BatchReport(PromiseAll(tasks, order))
  ELSE /\ fanPc' = "running"
       /\ fanResponse' = NoResponse

\* the indices of the tasks that are done, those of `before` first and in
\* that order, then the others by index
Resolved(tasks, before) ==
  LET fresh == {i \in 1..Len(tasks) : tasks[i].pc = "done"} \ {before[k] : k \in 1..Len(before)}
      RECURSIVE Asc(_)
      Asc(S) == IF S = {} THEN <<>>
                ELSE LET m == CHOOSE x \in S : \A y \in S : x <= y
                     IN  <<m>> \o Asc(S \ {m})
  IN  before \o Asc(fresh)

\* a request arrives: validation, then every checkDomain call starts
PostCheckBatch(body) ==
  /\ fanPc \in {"idle", "responded"}
  /\ fanBody' = body
  /\ IF ~body.isArray
     THEN /\ fanResponse' = Response(400, [error |-> <<"domains", "must", "be", "an", "array">>])
          /\ fanPc' = "responded"
          /\ fanTasks' = <<>>
          /\ fanOrder' = <<>>
     ELSE IF Len(body.items) > MAX_DOMAINS
     THEN /\ fanResponse' = Response(400, [error |-> <<"Maximum", "100", "domains", "per", "request">>])
          /\ fanPc' = "responded"
          /\ fanTasks' = <<>>
          /\ fanOrder' = <<>>
     ELSE LET tasks == [i \in 1..Len(body.items) |-> StartCheckDomain(body.items[i])]
          IN  /\ fanTasks' = tasks
              /\ fanOrder' = Resolved(tasks, <<>>)
              /\ FanSettle(tasks, Resolved(tasks, <<>>))
  /\ UNCHANGED <<namecheapConfigured, ncVars, pbVars>>

\* axios.get of checkViaRDAP settles for task i
RdapReply(i) ==
  /\ fanPc = "running"
  /\ i \in 1..Len(fanTasks)
  /\ fanTasks[i].pc = "rdap"
  /\ \E reply \in RdapRepliesFor(fanBody.items[i]) :
     LET tasks == [fanTasks EXCEPT ![i] = AfterRdap(fanTasks[i], fanBody.items[i], reply)]
     IN  /\ fanTasks' = tasks
         /\ fanOrder' = Resolved(tasks, fanOrder)
         /\ FanSettle(tasks, Resolved(tasks, fanOrder))
  /\ UNCHANGED <<namecheapConfigured, fanBody, ncVars, pbVars>>

\* Namecheap's reply to the request of task i arrives
NamecheapReply(i, reply) ==
  /\ fanPc = "running"
  /\ i \in 1..Len(fanTasks)
  /\ fanTasks[i].pc = "namecheap"
  /\ LET tasks == [fanTasks EXCEPT ![i] = AfterNamecheap(fanTasks[i], fanBody.items[i], reply)]
     IN  /\ fanTasks' = tasks
         /\ fanOrder' = Resolved(tasks, fanOrder)
         /\ FanSettle(tasks, Resolved(tasks, fanOrder))
  /\ UNCHANGED <<namecheapConfigured, fanBody, ncVars, pbVars>>

FanInit ==
  /\ namecheapConfigured \in BOOLEAN
  /\ fanPc = "idle"
  /\ fanBody = [isArray |-> TRUE, items |-> <<>>]
  /\ fanTasks = <<>>
  /\ fanOrder = <<>>
  /\ fanResponse = NoResponse

FanNext ==
  \/ \E body \in Bodies : PostCheckBatch(body)
  \/ \E i \in 1..MaxBatch : RdapReply(i)
  \/ \E i \in 1..MaxBatch, reply \in NamecheapReplies : NamecheapReply(i, reply)

\* ---- the rate limiter of the Name.com variant

RateLimiter(second, hour, secondReset, hourReset) ==
  [requestsThisSecond |-> second, requestsThisHour |-> hour,
   lastSecondReset |-> secondReset, lastHourReset |-> hourReset]

\* enforceRateLimit, "Reset counters": a window that has lasted its length is
\* started anew
ResetSecond(rl, t) ==
  IF t - rl.lastSecondReset >= SecondMs
  THEN [rl EXCEPT !.requestsThisSecond = 0, !.lastSecondReset = t]
  ELSE rl

ResetHour(rl, t) ==
  IF t - rl.lastHourReset >= HourMs
  THEN [rl EXCEPT !.requestsThisHour = 0, !.lastHourReset = t]
  ELSE rl

ResetCounters(rl, t) == ResetHour(ResetSecond(rl, t), t)

\* Admit without the increment of the hourly counter
AdmitSecondOnly(rl) ==
  [rl EXCEPT !.requestsThisSecond = @ + 1]

\* enforceRateLimit, the two increments
Admit(rl) ==
  [rl EXCEPT !.requestsThisSecond = @ + 1, !.requestsThisHour = @ + 1]

\* enforceRateLimit, after the wait: the second window is started anew
AfterWait(rl, t) ==
  Admit([rl EXCEPT !.requestsThisSecond = 0, !.lastSecondReset = t])

\* HourlyLimitReached off by one
HourlyLimitReachedStrict(rl) == rl.requestsThisHour > perHour

HourlyLimitReached(rl) == rl.requestsThisHour >= perHour

SecondLimitReached(rl) == rl.requestsThisSecond >= perSecond

\* WaitTime as the time elapsed in the window, not the time left of it
WaitTimeElapsed(rl, t) == t - rl.lastSecondReset

WaitTime(rl, t) == SecondMs - (t - rl.lastSecondReset)

HourlyMessage ==
  <<"Hourly", "rate", "limit", "exceeded", "-", "try", "again", "in", "an", "hour">>

\* EnforceRateLimit with the rejected call counted like an admitted one
EnforceRateLimitCountsRejected(rl, t) ==
  LET reset == ResetCounters(rl, t)
  IN  IF HourlyLimitReached(reset)
      THEN [outcome |-> "throw", rl |-> Admit(reset), waitTime |-> 0]
      ELSE IF SecondLimitReached(reset)
      THEN [outcome |-> "wait", rl |-> reset, waitTime |-> WaitTime(reset, t)]
      ELSE [outcome |-> "return", rl |-> Admit(reset), waitTime |-> 0]

\* enforceRateLimit up to its return, throw or wait, called at time t
EnforceRateLimit(rl, t) ==
  LET reset == ResetCounters(rl, t)
  IN  IF HourlyLimitReached(reset)
      THEN [outcome |-> "throw", rl |-> reset, waitTime |-> 0]
      ELSE IF SecondLimitReached(reset)
      THEN [outcome |-> "wait", rl |-> reset, waitTime |-> WaitTime(reset, t)]
      ELSE [outcome |-> "return", rl |-> Admit(reset), waitTime |-> 0]

\* ---- namecomRequest and checkDomainsViaNamecom

\* an Error object: error.code, error.response (and its status and its
\* data.message) and error.message
Error(code, hasResponse, status, dataMessage, message) ==
  [code |-> code, hasResponse |-> hasResponse, status |-> status,
   dataMessage |-> dataMessage, message |-> message]

\* new Error(message)
NewError(message) == Error("", FALSE, 0, <<>>, message)

\* the body of a Name.com reply: its results list, if it has one, and its
\* message, <<>> if it has none
NamecomData(hasResults, results, message) ==
  [hasResults |-> hasResults, results |-> results, message |-> message]

NamecomTimeout == [kind |-> "timeout", status |-> 0, data |-> NamecomData(FALSE, <<>>, <<>>)]

NamecomNetworkError == [kind |-> "network", status |-> 0, data |-> NamecomData(FALSE, <<>>, <<>>)]

\* the error axios rejects a Name.com request with
NamecomAxiosError(reply) ==
  Error(IF reply.kind = "timeout" THEN "ECONNABORTED"
        ELSE IF reply.kind = "network" THEN "ECONNREFUSED" ELSE "ERR_BAD_RESPONSE",
        reply.kind = "http",
        reply.status,
        reply.data.message,
        IF reply.kind = "timeout" THEN <<"timeout", "of", "10000ms", "exceeded">>
        ELSE IF reply.kind = "network" THEN <<"Network", "Error">>
        ELSE <<"Request", "failed", "with", "status", "code">>)

NamecomValidateStatus == 200..499

StatusWord(status) ==
  CASE status = 400 -> "400:"
    [] status = 401 -> "401:"
    [] status = 403 -> "403:"
    [] status = 404 -> "404:"
    [] status = 429 -> "429:"
    [] OTHER -> "4xx:"

\* a || b on messages: the empty message is falsy
Or(a, b) == IF a # <<>> THEN a ELSE b

\* the catch block of namecomRequest: the error it throws for the error caught
NamecomCatch(error) ==
  IF error.code = "ECONNABORTED"
  THEN NewError(<<"Name.com", "API", "timeout", "-", "please", "try", "again">>)
  ELSE IF error.hasResponse
  THEN IF error.status = 401
       THEN NewError(<<"Authentication", "failed", "-", "check", "API", "credentials",
                       "in", "Render", "dashboard">>)
       ELSE IF error.status = 403
       THEN NewError(<<"Access", "denied", "-", "disable", "2FA", "on", "Name.com", "account",
                       "or", "check", "IP", "restrictions">>)
       ELSE IF error.status = 429
       THEN NewError(<<"Rate", "limit", "exceeded", "-", "please", "slow", "down", "requests">>)
       ELSE NewError(<<"Name.com", "API", "error:">> \o Or(error.dataMessage, error.message))
  ELSE error

\* namecomRequest from the reply of axios on (the replies carry a message
\* or none, and no details)
NamecomRequest(reply) ==
  IF AxiosResolves(reply, NamecomValidateStatus)
  THEN IF reply.status >= 400
       THEN Throw(NamecomCatch(NewError(<<"Name.com", "API", "error", StatusWord(reply.status)>>
                                          \o Or(reply.data.message, <<"Unknown", "error">>))))
       ELSE Return(reply.data)
  ELSE Throw(NamecomCatch(NamecomAxiosError(reply)))

\* namecomRequest when enforceRateLimit threw
NamecomRequestRateLimited == Throw(NamecomCatch(NewError(HourlyMessage)))

Null == "null"

\* x || null on a price: the empty string is falsy
OrNull(x) == IF x = "" THEN Null ELSE x

\* one entry of results, as checkDomainsViaNamecom maps it
NamecomResult(result) ==
  [domain |-> result.domainName,
   available |-> result.purchasable = TRUE,
   method |-> "Name.com",
   speed |-> "fast",
   price |-> OrNull(result.purchasePrice),
   renewalPrice |-> OrNull(result.renewalPrice),
   premium |-> result.premium,
   tld |-> result.tld,
   purchaseType |-> result.purchaseType]

\* checkDomainsViaNamecom from the outcome of namecomRequest on: the map
\* over response.results throws a TypeError when there is no results list
CheckDomainsViaNamecom(out) ==
  IF out.threw
  THEN out
  ELSE IF ~out.value.hasResults
  THEN Throw(NewError(<<"Cannot", "read", "properties", "of", "undefined">>))
  ELSE Return([i \in 1..Len(out.value.results) |-> NamecomResult(out.value.results[i])])

\* ---- what the Name.com API may answer

Registered == {<<"google", "com">>, <<"nic", "io">>}

\* the entry the API returns for a domain
Entry(domain) ==
  [domainName |-> domain,
   purchasable |-> domain \notin Registered,
   purchasePrice |-> IF domain \in Registered THEN "" ELSE "12.99",
   renewalPrice |-> IF domain \in Registered THEN "" ELSE "14.99",
   premium |-> FALSE,
   tld |-> Tld(domain),
   purchaseType |-> "registration"]

Entries(domains) == [i \in 1..Len(domains) |-> Entry(domains[i])]

Reverse(seq) == [i \in 1..Len(seq) |-> seq[Len(seq) + 1 - i]]

\* the replies to a checkAvailability request for `domains`: the entries in
\* request order, in reverse order, without the first one; a success without
\* results; errors; no reply
NamecomReplies(domains) ==
  {HttpReply(200, NamecomData(TRUE, Entries(domains), <<>>)),
   HttpReply(200, NamecomData(TRUE, Reverse(Entries(domains)), <<>>)),
   HttpReply(200, NamecomData(TRUE, Tail(Entries(domains)), <<>>)),
   HttpReply(200, NamecomData(FALSE, <<>>, <<"Not", "Found">>)),
   HttpReply(401, NamecomData(FALSE, <<>>, <<"Unauthenticated">>)),
   HttpReply(429, NamecomData(FALSE, <<>>, <<>>)),
   HttpReply(500, NamecomData(FALSE, <<>>, <<"Internal", "Server", "Error">>)),
   NamecomTimeout,
   NamecomNetworkError}

\* ---- POST /check-batch of the Name.com variant

\* String.prototype.includes for a phrase, a run of words
IncludesPhrase(text, phrase) ==
  \E i \in 0..(Len(text) - Len(phrase)) : \A k \in 1..Len(phrase) : text[i + k] = phrase[k]

\* NamecomBatchReport with unavailable not reduced by the available ones
NamecomBatchReportMiscounts(results) ==
  LET available == Cardinality({i \in 1..Len(results) : results[i].available})
  IN  Response(200, [success |-> TRUE,
                     results |-> results,
                     totalChecked |-> Len(results),
                     available |-> available,
                     unavailable |-> Len(results),
                     provider |-> "Name.com"])

\* the report of the handler (without duration, the wall-clock time the
\* request took)
NamecomBatchReport(results) ==
  LET available == Cardinality({i \in 1..Len(results) : results[i].available})
  IN  Response(200, [success |-> TRUE,
                     results |-> results,
                     totalChecked |-> Len(results),
                     available |-> available,
                     unavailable |-> Len(results) - available,
                     provider |-> "Name.com"])

\* the catch block of the handler
NamecomBatchFailure(error) ==
  Response(IF IncludesPhrase(error.message, <<"rate", "limit">>) THEN 429 ELSE 500,
           [success |-> FALSE, error |-> error.message, totalChecked |-> 0, available |-> 0])

\* the handler from the outcome of checkDomainsViaNamecom on
NamecomBatchRespond(out) ==
  IF out.threw THEN NamecomBatchFailure(out.value) ELSE NamecomBatchReport(out.value)

\* NamecomValidate without the check of the maximum
NamecomValidateNoMaximum(body) ==
  IF ~body.isArray
  THEN Response(400, [error |-> <<"domains", "must", "be", "an", "array">>])
  ELSE IF Len(body.items) = 0
  THEN Response(400, [error |-> <<"At", "least", "one", "domain", "is", "required">>])
  ELSE NoResponse

\* the validation of the handler: the response it sends for a body it
\* rejects, NoResponse for a body it accepts
NamecomValidate(body) ==
  IF ~body.isArray
  THEN Response(400, [error |-> <<"domains", "must", "be", "an", "array">>])
  ELSE IF Len(body.items) = 0
  THEN Response(400, [error |-> <<"At", "least", "one", "domain", "is", "required">>])
  ELSE IF Len(body.items) > MAX_DOMAINS
  THEN Response(400, [error |-> <<"Maximum", "100", "domains", "per", "request">>])
  ELSE NoResponse

NoBody == [isArray |-> FALSE, items |-> <<>>]

DomainList == <<<<"free-xyz123", "test">>, <<"google", "com">>, <<"nic", "io">>, <<"example", "net">>>>

\* the bodies sent to the Name.com variant: no list, the empty list, the
\* first MaxBatch domains of DomainList, the oversized list
NamecomBodies ==
  {[isArray |-> TRUE, items |-> SubSeq(DomainList, 1, n)] : n \in {0, MaxBatch}}
    \cup {[isArray |-> TRUE, items |-> Oversized], NoBody}

\* a request: where it stands ("idle" before it arrives, "waiting" in the wait
\* of enforceRateLimit, "upstream" while its Name.com request is in flight,
\* "done" once answered), its input, the wait it asked setTimeout for and the
\* time at which that timer is due
Call(pc, body, waitTime, wakeAt) ==
  [pc |-> pc, body |-> body, waitTime |-> waitTime, wakeAt |-> wakeAt]

\* an answer: the input, the response, whether the request went through the
\* wait and whether it issued a Name.com request
Answer(body, response, waited, requested) ==
  [body |-> body, response |-> response, waited |-> waited, requested |-> requested]

NoAnswer == Answer(NoBody, NoResponse, FALSE, FALSE)

\* the calls admitted (enforceRateLimit returned) since the instant at which
\* each window of the limiter starts: a count starts anew when the start of its
\* window moves to another instant
Admitted(second, hour) == [second |-> second, hour |-> hour]

CountAdmitted(rl, after, n) ==
  Admitted((IF after.lastSecondReset # rl.lastSecondReset THEN 0 ELSE admitted.second) + n,
           (IF after.lastHourReset # rl.lastHourReset THEN 0 ELSE admitted.hour) + n)

\* a batch request arrives at time now: validation, then checkDomainsViaNamecom
\* and namecomRequest down to enforceRateLimit, which throws (the handler
\* answers the failure), waits, or returns (the Name.com request is issued)
PostCheckBatchNamecom(c, body) ==
  /\ calls[c].pc = "idle"
  /\ \A b \in 1..(c - 1) : calls[b].pc # "idle"
  /\ IF NamecomValidate(body) # NoResponse
     THEN /\ sent' = Answer(body, NamecomValidate(body), FALSE, FALSE)
          /\ calls' = [calls EXCEPT ![c] = Call("done", NoBody, 0, 0)]
          /\ UNCHANGED <<rateLimiter, admitted>>
     ELSE LET e == EnforceRateLimit(rateLimiter, now)
          IN  /\ rateLimiter' = e.rl
              /\ CASE e.outcome = "throw" ->
                        /\ sent' = Answer(body,
                                          NamecomBatchRespond(
                                            CheckDomainsViaNamecom(NamecomRequestRateLimited)),
                                          FALSE, FALSE)
                        /\ calls' = [calls EXCEPT ![c] = Call("done", NoBody, 0, 0)]
                        /\ admitted' = CountAdmitted(rateLimiter, e.rl, 0)
                   [] e.outcome = "wait" ->
                        /\ calls' = [calls EXCEPT
                                       ![c] = Call("waiting", body, e.waitTime, now + e.waitTime)]
                        /\ admitted' = CountAdmitted(rateLimiter, e.rl, 0)
                        /\ sent' = NoAnswer
                   [] e.outcome = "return" ->
                        /\ calls' = [calls EXCEPT ![c] = Call("upstream", body, 0, 0)]
                        /\ admitted' = CountAdmitted(rateLimiter, e.rl, 1)
                        /\ sent' = NoAnswer
  /\ UNCHANGED <<now, fanVars, pbVars>>

\* the timer of a waiting request fires: enforceRateLimit starts the second
\* window anew, counts the request and returns; the Name.com request is issued
ResumeAfterWait(c) ==
  /\ calls[c].pc = "waiting"
  /\ now >= calls[c].wakeAt
  /\ rateLimiter' = AfterWait(rateLimiter, now)
  /\ calls' = [calls EXCEPT ![c].pc = "upstream"]
  /\ admitted' = CountAdmitted(rateLimiter, AfterWait(rateLimiter, now), 1)
  /\ sent' = NoAnswer
  /\ UNCHANGED <<now, fanVars, pbVars>>

\* the reply to the Name.com request of a request arrives (or its timeout
\* expires): namecomRequest, checkDomainsViaNamecom and the handler run to
\* the response
NamecomReply(c) ==
  /\ calls[c].pc = "upstream"
  /\ \E reply \in NamecomReplies(calls[c].body.items) :
       sent' = Answer(calls[c].body,
                      NamecomBatchRespond(CheckDomainsViaNamecom(NamecomRequest(reply))),
                      calls[c].waitTime > 0, TRUE)
  /\ calls' = [calls EXCEPT ![c] = Call("done", NoBody, 0, 0)]
  /\ UNCHANGED <<now, rateLimiter, admitted, fanVars, pbVars>>

\* time passes; the clock stops at MaxTime once no timer is pending
Tick ==
  /\ \/ now < MaxTime
     \/ \E c \in 1..MaxCalls : calls[c].pc = "waiting" /\ now < calls[c].wakeAt
  /\ now' = now + 1
  /\ sent' = NoAnswer
  /\ UNCHANGED <<rateLimiter, calls, admitted, fanVars, pbVars>>

NamecomInit ==
  /\ now = 0
  /\ rateLimiter = RateLimiter(0, 0, 0, 0)
  /\ calls = [c \in 1..MaxCalls |-> Call("idle", NoBody, 0, 0)]
  /\ sent = NoAnswer
  /\ admitted = Admitted(0, 0)

NamecomNext ==
  \/ \E c \in 1..MaxCalls, body \in NamecomBodies : PostCheckBatchNamecom(c, body)
  \/ \E c \in 1..MaxCalls : ResumeAfterWait(c)
  \/ \E c \in 1..MaxCalls : NamecomReply(c)
  \/ Tick

\* ---- GET /check of the Porkbun proxy

\* the body of a Porkbun reply
PorkbunData(status, available) == [status |-> status, available |-> available]

PorkbunReplies ==
  {HttpReply(200, PorkbunData("SUCCESS", "yes")),
   HttpReply(200, PorkbunData("SUCCESS", "no")),
   HttpReply(200, PorkbunData("ERROR", "")),
   HttpReply(400, PorkbunData("ERROR", "")),
   HttpReply(503, PorkbunData("", "")),
   ConnectionRefused}

\* req.query.domain: a domain, or <<>> when the parameter is missing or empty
PorkbunQueries == Domains \cup {<<>>}

\* the handler from the outcome of axios.post on
PorkbunRespond(domain, reply) ==
  IF AxiosResolves(reply, DefaultValidateStatus)
  THEN IF reply.data.status # "SUCCESS"
       THEN Response(200, [domain |-> domain, available |-> FALSE])
       ELSE Response(200, [domain |-> domain, available |-> reply.data.available = "yes"])
  ELSE Response(500, [domain |-> domain, available |-> FALSE])

\* a request arrives: the two checks, then the request to Porkbun
PorkbunGetCheck(domain) ==
  /\ porkbunPc \in {"idle", "responded"}
  /\ porkbunDomain' = domain
  /\ porkbunReply' = NoReply
  /\ IF domain = <<>>
     THEN /\ porkbunResponse' = Response(400, [error |-> <<"Domain", "is", "required">>])
          /\ porkbunPc' = "responded"
     ELSE IF ~porkbunConfigured
     THEN /\ porkbunResponse' = Response(500, [error |-> <<"Server", "configuration", "error">>])
          /\ porkbunPc' = "responded"
     ELSE /\ porkbunResponse' = NoResponse
          /\ porkbunPc' = "upstream"
  /\ UNCHANGED <<porkbunConfigured, fanVars, ncVars>>

\* axios.post settles
PorkbunReply(reply) ==
  /\ porkbunPc = "upstream"
  /\ porkbunReply' = reply
  /\ porkbunResponse' = PorkbunRespond(porkbunDomain, reply)
  /\ porkbunPc' = "responded"
  /\ UNCHANGED <<porkbunConfigured, porkbunDomain, fanVars, ncVars>>

PorkbunInit ==
  /\ porkbunConfigured \in BOOLEAN
  /\ porkbunPc = "idle"
  /\ porkbunDomain = <<>>
  /\ porkbunReply = NoReply
  /\ porkbunResponse = NoResponse

PorkbunNext ==
  \/ \E domain \in PorkbunQueries : PorkbunGetCheck(domain)
  \/ \E reply \in PorkbunReplies : PorkbunReply(reply)

\* ---- the servers

\* the RDAP / Namecheap variant serving requests
InitFanOut == FanInit /\ NamecomInit /\ PorkbunInit /\ ~porkbunConfigured

SpecFanOut == InitFanOut /\ [][FanNext]_vars

\* every request of an adapter is settled in the end: the upstream answers,
\* or the timeout of the request expires
FairSpecFanOut ==
  /\ SpecFanOut
  /\ \A i \in 1..MaxBatch :
       /\ WF_vars(RdapReply(i))
       /\ WF_vars(\E reply \in NamecheapReplies : NamecheapReply(i, reply))

\* the Name.com variant serving requests
InitNamecom ==
  FanInit /\ ~namecheapConfigured /\ NamecomInit /\ PorkbunInit /\ ~porkbunConfigured

\* a process runs one of the three servers, with the credentials that server
\* reads: the state of the other two stays as it is at the start
InitPorkbun == FanInit /\ ~namecheapConfigured /\ NamecomInit /\ PorkbunInit

InitServers == InitFanOut \/ InitNamecom \/ InitPorkbun

ServersNext ==
  \/ NamecomInit /\ porkbunPc = "idle" /\ ~porkbunConfigured /\ FanNext
  \/ fanPc = "idle" /\ ~namecheapConfigured /\ porkbunPc = "idle" /\ ~porkbunConfigured
       /\ NamecomNext
  \/ fanPc = "idle" /\ ~namecheapConfigured /\ NamecomInit /\ PorkbunNext

SpecServers == InitServers /\ [][ServersNext]_vars

SpecNamecom == InitNamecom /\ [][NamecomNext]_vars

\* the fairness the runtime gives: time passes, and a timer that is due fires
FairSpecNamecom ==
  /\ SpecNamecom
  /\ WF_vars(Tick)
  /\ \A c \in 1..MaxCalls : WF_vars(ResumeAfterWait(c))

\* ------------------------------------------------------------------ claims

\* the fan-out handler answered a request whose body passes its validation
FanAnsweredValid ==
  fanPc = "responded" /\ fanBody.isArray /\ Len(fanBody.items) <= MAX_DOMAINS

\* C1: the report of the fan-out handler for a valid batch has as many
\* results as the input has domains, and the i-th result is that of the i-th
\* input domain, in whatever order the resolutions completed
C1_FanOutKeepsInputOrder ==
  FanAnsweredValid =>
    /\ fanResponse.status = 200
    /\ Len(fanResponse.body.results) = Len(fanBody.items)
    /\ \A i \in 1..Len(fanBody.items) : fanResponse.body.results[i].domain = fanBody.items[i]

\* a report for two different domains whose resolutions completed in reverse
C1_Witness ==
  /\ FanAnsweredValid
  /\ fanResponse.status = 200
  /\ Len(fanBody.items) = 2
  /\ fanBody.items[1] # fanBody.items[2]
  /\ fanOrder = <<2, 1>>

\* the Name.com handler answered a request whose body passes its validation
NamecomAnsweredValid ==
  sent.response # NoResponse /\ NamecomValidate(sent.body) = NoResponse

\* C2: the results the Name.com batch handler returns correspond one to one
\* to the input domains, in input order, whatever the order and the number of
\* the entries of the upstream reply
C2_NamecomKeepsInputOrder ==
  (NamecomAnsweredValid /\ sent.response.status = 200) =>
    /\ Len(sent.response.body.results) = Len(sent.body.items)
    /\ \A i \in 1..Len(sent.body.items) :
         sent.response.body.results[i].domain = sent.body.items[i]

\* C3: neither counter of the rate limiter ever exceeds its limit
C3_CountersWithinLimits ==
  /\ rateLimiter.requestsThisSecond <= perSecond
  /\ rateLimiter.requestsThisHour <= perHour

\* C4: no more than perSecond calls are admitted within one per-second
\* window and no more than perHour within one per-hour window
C4_NoOverAdmission ==
  /\ admitted.second <= perSecond
  /\ admitted.hour <= perHour

\* request c arrives in this step with a body that passes validation
ArrivesValid(c) ==
  /\ calls[c].pc = "idle"
  /\ calls'[c].pc # "idle"
  /\ sent'.response.status # 400

\* perHour calls were admitted in the hour window, which is still running
HourExhausted ==
  now - rateLimiter.lastHourReset < HourMs /\ admitted.hour >= perHour

\* C5: once perHour calls were admitted within the current hour window, the
\* next call fails with the hourly error at once: it does not wait, issues no
\* Name.com request and leaves both counters as they are
C5_HourlyLimitFailsAtOnce ==
  [][\A c \in 1..MaxCalls :
       (HourExhausted /\ ArrivesValid(c)) =>
         /\ calls'[c].pc = "done"
         /\ sent'.response.body.error = HourlyMessage
         /\ sent'.response.body.success = FALSE
         /\ ~sent'.waited
         /\ ~sent'.requested
         /\ rateLimiter'.requestsThisHour = rateLimiter.requestsThisHour]_vars

\* a request was answered with the hourly error
C5_Witness ==
  /\ admitted.hour >= perHour
  /\ sent.response.status = 429
  /\ sent.response.body.error = HourlyMessage

\* the per-second counter is at its limit in a second window still running,
\* and the hourly counter is not at its limit (or its window is over)
SecondExhausted ==
  /\ now - rateLimiter.lastSecondReset < SecondMs
  /\ rateLimiter.requestsThisSecond >= perSecond
  /\ \/ now - rateLimiter.lastHourReset >= HourMs
     \/ rateLimiter.requestsThisHour < perHour

C7_ValidBatchYieldsNResults ==
  NamecomAnsweredValid =>
    /\ sent.response.status = 200
    /\ Len(sent.response.body.results) = Len(sent.body.items)

\* the attempts of task i: RDAP failed, then Namecheap succeeded
RdapFailedNamecheapOk(i) ==
  /\ Len(fanTasks[i].log) = 2
  /\ fanTasks[i].log[1].adapter = "rdap" /\ ~fanTasks[i].log[1].ok
  /\ fanTasks[i].log[2].adapter = "namecheap" /\ fanTasks[i].log[2].ok

\* C8: when checkViaRDAP failed and checkViaNamecheap succeeded, checkDomain
\* returns the result of checkViaNamecheap, with its method
C8_FallbackResultIsNamecheaps ==
  \A i \in 1..Len(fanTasks) :
    RdapFailedNamecheapOk(i) =>
      /\ fanTasks[i].pc = "done"
      /\ Len(fanTasks[i].result) = 1
      /\ fanTasks[i].result[1].method = "Namecheap"
      /\ fanTasks[i].result[1].domain = fanBody.items[i]
      /\ fanTasks[i].result[1].available =
           Includes(fanTasks[i].log[2].reply.data, "Available=\"true\"")

\* a resolution where RDAP failed on a reply and Namecheap reported the
\* domain available
C8_Witness ==
  \E i \in 1..Len(fanTasks) :
    /\ RdapFailedNamecheapOk(i)
    /\ fanTasks[i].log[1].reply.kind = "http"
    /\ fanTasks[i].result[1].available

\* every adapter was attempted for task i and every attempt failed
AllAdaptersFailed(i) ==
  /\ Len(fanTasks[i].log) = 2
  /\ \A k \in 1..2 : ~fanTasks[i].log[k].ok

\* C9: when every adapter failed, checkDomain returns (it does not throw) a
\* result with the input domain, available=false, the error method and a
\* non-empty error text
C9_AllFailedReturnsErrorResult ==
  \A i \in 1..Len(fanTasks) :
    AllAdaptersFailed(i) =>
      /\ fanTasks[i].pc = "done"
      /\ Len(fanTasks[i].result) = 1
      /\ fanTasks[i].result[1].domain = fanBody.items[i]
      /\ fanTasks[i].result[1].available = FALSE
      /\ fanTasks[i].result[1].method = "error"
      /\ Len(fanTasks[i].result[1].error) > 0

\* a resolution where both adapters failed on an upstream reply
C9_Witness ==
  \E i \in 1..Len(fanTasks) :
    /\ AllAdaptersFailed(i)
    /\ fanTasks[i].log[1].reply # NoReply
    /\ fanTasks[i].log[2].reply # NoReply

\* C10: for a domain with an RDAP server, a 404 reply yields available=true
\* and a 200 reply yields available=false, both with the method RDAP
C10_RdapNotFoundMeansAvailable ==
  \A i \in 1..Len(fanTasks) :
    (/\ Len(fanTasks[i].log) >= 1
     /\ fanTasks[i].log[1].adapter = "rdap"
     /\ fanTasks[i].log[1].reply.kind = "http"
     /\ fanTasks[i].log[1].reply.status \in {200, 404}) =>
      /\ fanTasks[i].pc = "done"
      /\ fanTasks[i].result[1].method = "RDAP"
      /\ fanTasks[i].result[1].available = (fanTasks[i].log[1].reply.status = 404)

\* the reply an adapter attempt got is an error: no response, a status that
\* is no success (404 is the RDAP way of saying "not found"), or a Namecheap
\* body without a check result
ErrorReplyToAttempt(attempt) ==
  \/ attempt.reply.kind # "http"
  \/ attempt.adapter = "rdap" /\ attempt.reply.status \notin {200, 404}
  \/ attempt.adapter = "namecheap" /\ attempt.reply.status \notin 200..299
  \/ /\ attempt.adapter = "namecheap"
     /\ ~Includes(attempt.reply.data, "Available=\"true\"")
     /\ ~Includes(attempt.reply.data, "Available=\"false\"")

\* the reply the Porkbun handler got is an error
ErrorReplyToPorkbun ==
  \/ porkbunReply.kind # "http"
  \/ porkbunReply.status \notin 200..299
  \/ porkbunReply.data.status # "SUCCESS"

\* C11: an adapter that got an error reply throws, and the Porkbun handler
\* that got one answers with a failure status: neither turns an error reply
\* into a result with available=false that looks like a lookup result
C11_ErrorReplyNeverLooksRegistered ==
  /\ \A i \in 1..Len(fanTasks) : \A k \in 1..Len(fanTasks[i].log) :
       ErrorReplyToAttempt(fanTasks[i].log[k]) => ~fanTasks[i].log[k].ok
  /\ (porkbunPc = "responded" /\ porkbunReply # NoReply /\ ErrorReplyToPorkbun) =>
       porkbunResponse.status >= 400

\* C12: a batch request with more than 100 domains is answered 400 in both
\* batch handlers; no checkDomain call is started and no Name.com request is
\* issued for it, no request waits for it, and the rate limiter (both
\* counters, both window starts) is left as it was
C12_OversizedBatchRejectedUntouched ==
  [][/\ (fanPc' # "idle" /\ Len(fanBody'.items) > MAX_DOMAINS) =>
          /\ fanPc' = "responded"
          /\ fanResponse'.status = 400
          /\ fanTasks' = <<>>
          /\ rateLimiter' = rateLimiter
     /\ Len(sent'.body.items) > MAX_DOMAINS =>
          /\ sent'.response.status = 400
          /\ ~sent'.requested
          /\ ~sent'.waited
          /\ rateLimiter' = rateLimiter
          /\ \A c \in 1..MaxCalls :
               calls'[c].pc \in {"waiting", "upstream"} => calls'[c] = calls[c]]_vars

\* an oversized batch was rejected by the Name.com handler after the rate
\* limiter had admitted requests
C12_Witness ==
  /\ Len(sent.body.items) > MAX_DOMAINS
  /\ sent.response.status = 400
  /\ rateLimiter.requestsThisHour > 0

\* C13: a batch request whose domains value is no list, or is the empty
\* list, is answered 400 and gets no report, in both batch handlers
C13_NoListOrEmptyListRejected ==
  /\ (fanPc # "idle" /\ (~fanBody.isArray \/ Len(fanBody.items) = 0)) =>
       /\ fanPc = "responded"
       /\ fanResponse.status = 400
  /\ (sent.response # NoResponse /\ (~sent.body.isArray \/ Len(sent.body.items) = 0)) =>
       sent.response.status = 400

\* the Name.com request of request c is issued in this step
IssuesRequest(c) == calls[c].pc # "upstream" /\ calls'[c].pc = "upstream"

\* C14: a Name.com request is issued only in the step in which
\* enforceRateLimit returns for it, straight away or after its wait, and that
\* return counts the request once in both counters (from zero in a window that
\* was started anew); a request is answered from a Name.com reply only if its
\* Name.com request was issued; a request that enforceRateLimit fails is
\* answered without a Name.com request
C14_RequestOnlyAfterAdmission ==
  [][/\ \A c \in 1..MaxCalls :
          IssuesRequest(c) =>
            /\ calls[c].pc \in {"idle", "waiting"}
            /\ rateLimiter'.requestsThisHour =
                 (IF rateLimiter'.lastHourReset # rateLimiter.lastHourReset
                  THEN 0 ELSE rateLimiter.requestsThisHour) + 1
            /\ rateLimiter'.requestsThisSecond =
                 (IF \/ rateLimiter'.lastSecondReset # rateLimiter.lastSecondReset
                     \/ calls[c].pc = "waiting"
                  THEN 0 ELSE rateLimiter.requestsThisSecond) + 1
     /\ sent'.requested =>
          \E c \in 1..MaxCalls : calls[c].pc = "upstream" /\ calls'[c].pc = "done"
     /\ (sent'.response.status = 429 /\ sent'.response.body.error = HourlyMessage) =>
          /\ ~sent'.requested
          /\ \E c \in 1..MaxCalls : calls[c].pc = "idle" /\ calls'[c].pc = "done"
          /\ \A c \in 1..MaxCalls : ~IssuesRequest(c)]_vars

\* a request was answered from a Name.com reply after several admissions
C14_Witness ==
  /\ sent.requested
  /\ sent.response.status = 200
  /\ rateLimiter.requestsThisHour >= 2

\* C15: in every report of the Name.com batch handler available plus
\* unavailable is totalChecked, totalChecked is the number of results, and
\* unavailable is the number of results with available=false
C15_ReportCountersAddUp ==
  (sent.response.status = 200) =>
    LET report == sent.response.body
    IN  /\ report.available + report.unavailable = report.totalChecked
        /\ report.totalChecked = Len(report.results)
        /\ report.unavailable =
             Cardinality({i \in 1..Len(report.results) : report.results[i].available = FALSE})
        /\ report.available =
             Cardinality({i \in 1..Len(report.results) : report.results[i].available = TRUE})

\* a report with an available and an unavailable domain
C15_Witness ==
  /\ sent.response.status = 200
  /\ sent.response.body.available = 1
  /\ sent.response.body.unavailable = 1

\* the RDAP_SERVERS table has a route for the suffix of the domain
HasRoute(domain) == Tld(domain) \in RDAP_SERVERS

\* the batch of the scenario was answered, no adapter having resolved the
\* first domain and RDAP having found the second
UnroutableThenRegistered ==
  /\ fanPc = "responded"
  /\ fanBody.items = <<<<"free-xyz123", "test">>, <<"google", "com">>>>
  /\ AllAdaptersFailed(1)
  /\ fanTasks[2].log = <<Attempt("rdap", TRUE, HttpReply(200, <<>>))>>

\* C16: for a domain whose suffix has no route, checkViaRDAP throws before
\* it calls axios and checkDomain goes on to checkViaNamecheap; the batch
\* [unroutable domain, registered routable domain], when no adapter resolves
\* the first, gets the results [error method, available=false] and
\* [RDAP method, available=false], in this order
C16_UnroutableSkipsRdap ==
  /\ \A i \in 1..Len(fanTasks) :
       ~HasRoute(fanBody.items[i]) =>
         /\ fanTasks[i].pc # "rdap"
         /\ fanTasks[i].log[1] = Attempt("rdap", FALSE, NoReply)
         /\ fanTasks[i].pc = "namecheap" \/ fanTasks[i].log[2].adapter = "namecheap"
  /\ UnroutableThenRegistered =>
       /\ fanResponse.status = 200
       /\ Len(fanResponse.body.results) = 2
       /\ fanResponse.body.results[1].domain = <<"free-xyz123", "test">>
       /\ fanResponse.body.results[1].method = "error"
       /\ fanResponse.body.results[1].available = FALSE
       /\ fanResponse.body.results[2].domain = <<"google", "com">>
       /\ fanResponse.body.results[2].method = "RDAP"
       /\ fanResponse.body.results[2].available = FALSE

\* RDAP answered "not found" for task i
RdapSaidNotFound(i) ==
  /\ Len(fanTasks[i].log) >= 1
  /\ fanTasks[i].log[1].adapter = "rdap"
  /\ fanTasks[i].log[1].reply = HttpReply(404, <<>>)

\* C17: checkDomain calls for one domain that all got "not found" from the
\* upstream all return available=true, and they return the same result
\* however many calls came before
C17_NotFoundAlwaysAvailable ==
  \A i \in 1..Len(fanTasks) :
    RdapSaidNotFound(i) =>
      /\ fanTasks[i].pc = "done"
      /\ fanTasks[i].result[1].available = TRUE
      /\ \A j \in 1..Len(fanTasks) :
           (fanBody.items[j] = fanBody.items[i] /\ fanTasks[j].log = fanTasks[i].log) =>
             fanTasks[j].result = fanTasks[i].result

\* C18: a window of the rate limiter is started anew (its counter set to
\* zero, its start moved) only in a step taken when the window has lasted its
\* full length, also when several requests that waited at the per-second
\* limit resume one after another
C18_WindowsRollOverByTimeOnly ==
  [][/\ (\/ rateLimiter'.lastSecondReset # rateLimiter.lastSecondReset
         \/ rateLimiter'.requestsThisSecond < rateLimiter.requestsThisSecond
         \/ /\ \E c \in 1..MaxCalls : IssuesRequest(c)
            /\ rateLimiter'.requestsThisSecond # rateLimiter.requestsThisSecond + 1)
          => now - rateLimiter.lastSecondReset >= SecondMs
     /\ (\/ rateLimiter'.lastHourReset # rateLimiter.lastHourReset
         \/ rateLimiter'.requestsThisHour < rateLimiter.requestsThisHour
         \/ /\ \E c \in 1..MaxCalls : IssuesRequest(c)
            /\ rateLimiter'.requestsThisHour # rateLimiter.requestsThisHour + 1)
          => now - rateLimiter.lastHourReset >= HourMs]_vars

\* how far a resolution is
Rank(pc) == CASE pc = "rdap" -> 1 [] pc = "namecheap" -> 2 [] OTHER -> 3

\* the attempts of a resolution are those of a run through the chain: RDAP
\* once, then Namecheap once and only after RDAP failed, nothing after a
\* success, and the resolution is where its attempts say
LinearAttempts(task) ==
  /\ Len(task.log) <= 2
  /\ Len(task.log) >= 1 => task.log[1].adapter = "rdap"
  /\ Len(task.log) = 2 => task.log[2].adapter = "namecheap" /\ ~task.log[1].ok
  /\ task.pc = "rdap" => task.log = <<>>
  /\ task.pc = "namecheap" => Len(task.log) = 1
  /\ task.pc = "done" => task.log[Len(task.log)].ok \/ Len(task.log) = 2
  /\ task.pc \in {"rdap", "namecheap", "done"}

\* C19: a resolution runs through the adapters in order and never back:
\* each adapter is attempted at most once, Namecheap only after RDAP failed,
\* none after a success; and when every adapter request is settled (answered
\* or timed out), every resolution ends, resolved or with all adapters failed
C19_ResolutionIsLinearAndEnds ==
  /\ [](\A i \in 1..Len(fanTasks) : LinearAttempts(fanTasks[i]))
  /\ [][fanPc = "running" =>
          \A i \in 1..Len(fanTasks) :
            /\ Rank(fanTasks'[i].pc) >= Rank(fanTasks[i].pc)
            /\ Len(fanTasks'[i].log) >= Len(fanTasks[i].log)
            /\ SubSeq(fanTasks'[i].log, 1, Len(fanTasks[i].log)) = fanTasks[i].log]_vars
  /\ \A i \in 1..MaxBatch :
       (i <= Len(fanTasks) /\ fanTasks[i].pc \in {"rdap", "namecheap"})
         ~> (i <= Len(fanTasks) /\ fanTasks[i].pc = "done")

\* a resolution ended after RDAP timed out and Namecheap answered
C19_Witness ==
  \E i \in 1..Len(fanTasks) :
    /\ fanTasks[i].pc = "done"
    /\ Len(fanTasks[i].log) = 2
    /\ fanTasks[i].log[1].reply = Timeout
    /\ fanTasks[i].log[2].ok

\* C20: the fan-out handler sends nothing while a resolution of the batch
\* is pending; the report it sends holds the results of all resolutions, all
\* ended, and the counters of these results; and once sent, the response
\* stays as it is until the next request arrives
C20_ReportSentOnceAfterAll ==
  /\ [](/\ fanPc = "running" => fanResponse = NoResponse
        /\ fanResponse # NoResponse =>
             /\ fanPc = "responded"
             /\ \A i \in 1..Len(fanTasks) : fanTasks[i].pc \in {"done", "rejected"}
        /\ fanResponse.status = 200 =>
             /\ fanResponse.body.results = [i \in 1..Len(fanTasks) |-> fanTasks[i].result[1]]
             /\ fanResponse.body.totalChecked = Len(fanTasks)
             /\ fanResponse.body.available =
                  Cardinality({i \in 1..Len(fanTasks) : fanTasks[i].result[1].available}))
  /\ [][(fanPc = "responded" /\ fanResponse' # fanResponse) =>
          \A i \in 1..Len(fanTasks') : \A k \in 1..Len(fanTasks'[i].log) :
            fanTasks'[i].log[k].reply = NoReply]_vars

\* a report for two domains, each resolved by Namecheap after RDAP failed
C20_Witness ==
  /\ fanPc = "responded"
  /\ fanResponse.status = 200
  /\ Len(fanTasks) = 2
  /\ \A i \in 1..2 : RdapFailedNamecheapOk(i)

\* a request is answered with the hourly error in this step
FailsHourly ==
  /\ sent'.response.status = 429
  /\ sent'.response.body.error = HourlyMessage
  /\ \E c \in 1..MaxCalls : calls[c].pc = "idle" /\ calls'[c].pc = "done"

\* C21: a call that enforceRateLimit fails with the hourly error is not
\* counted: the hourly counter and its window stay as they are, the
\* per-second counter stays as it is or is zero in a window that has rolled
\* over, neither counter grows, and no request is left waiting for it
C21_RejectedCallNotCounted ==
  [][FailsHourly =>
       /\ rateLimiter'.requestsThisHour = rateLimiter.requestsThisHour
       /\ rateLimiter'.lastHourReset = rateLimiter.lastHourReset
       /\ IF now - rateLimiter.lastSecondReset >= SecondMs
          THEN rateLimiter'.requestsThisSecond = 0 /\ rateLimiter'.lastSecondReset = now
          ELSE /\ rateLimiter'.requestsThisSecond = rateLimiter.requestsThisSecond
               /\ rateLimiter'.lastSecondReset = rateLimiter.lastSecondReset
       /\ admitted'.hour = admitted.hour
       /\ \A c \in 1..MaxCalls : calls'[c].pc = "waiting" => calls'[c] = calls[c]]_vars

\* a request was answered with the hourly error, the counters showing the
\* admissions before it
C21_Witness ==
  /\ sent.response.status = 429
  /\ sent.response.body.error = HourlyMessage
  /\ rateLimiter.requestsThisHour = perHour
  /\ rateLimiter.requestsThisSecond >= 1

\* the failure the handler answered with came from rate limiting: the hourly
\* error of enforceRateLimit, or an error for status 429 of the Name.com API
RateLimitFailure ==
  \/ sent.response.body.error = HourlyMessage
  \/ Includes(sent.response.body.error, "429:")
  \/ IncludesPhrase(sent.response.body.error, <<"Rate", "limit", "exceeded">>)

\* C22: the Name.com batch handler answers a failure that came from rate
\* limiting, local or upstream, with status 429 and any other failure with
\* status 500
C22_RateLimitFailuresAnswered429 ==
  (NamecomAnsweredValid /\ sent.response.status # 200) =>
    sent.response.status = (IF RateLimitFailure THEN 429 ELSE 500)

====
